---- MODULE Spec2Model ----
(***************************************************************************)
(* Job lifecycle and resumable upload of web_app.py: the in-memory job     *)
(* registry (active_jobs), the chunked upload handlers, the legacy upload, *)
(* start-processing with its detached pipeline thread, the poll endpoints  *)
(* and cleanup.                                                            *)
(*                                                                         *)
(* A job is a Python dict; it is modelled as a function whose DOMAIN is    *)
(* the set of keys present.  Dicts live in a heap and are referred to by   *)
(* object id, because handlers and threads keep a reference (`job`) to the *)
(* dict they looked up while the registry entry may be deleted or          *)
(* replaced under them.                                                    *)
(***************************************************************************)
EXTENDS Integers, FiniteSets, Sequences, TLC

VARIABLES
    active_jobs,   \* registry: job id -> object id of the job dict
    heap,          \* object id -> job dict (only objects still referenced)
    files,         \* uploads folder: path -> file content (sequence of bytes)
    outputs,       \* outputs folder: set of artifact paths present on disk
    user_actions,  \* user_actions.txt: number of 'file_upload' entries per job id
    issued,        \* job ids uuid4 has produced or a client has used
    now,           \* wall clock (datetime.now())
    chunkreqs,     \* upload_chunk requests being served: slot -> frame
    threads,       \* pipeline threads: slot -> frame of process_video_async
    subs,          \* progress subscriptions: slot -> frame of get_progress.generate
    resp           \* the response of the handler that returned last

vars == <<active_jobs, heap, files, outputs, user_actions, issued, now,
          chunkreqs, threads, subs, resp>>

(***************************** bounds **************************************)
NumIds == 2        \* job ids that can ever be generated or supplied
MaxJobs == 1       \* job ids in use where the pipeline or concurrent requests run
MaxRuns == 2       \* pipeline threads that can ever be started
MaxChunkReqs == 2  \* upload_chunk requests served at the same time
MaxFilesize == 3   \* largest filesize an upload is initiated with
MaxChunkSize == 2  \* largest chunk_size an upload is initiated with
MaxBody == 2       \* longest chunk body
MaxLog == 2        \* 'file_upload' log entries per job id before the legacy upload stops
MaxSubs == 1       \* progress subscriptions that can ever be opened
TickHours == 12    \* hours the clock advances in one step
MaxNow == 48       \* hours the clock runs for
MaxGoneAt == 1     \* latest iteration of a subscription at which its client disconnects

JobIds == 1..NumIds
ObjIds == 1..(NumIds + MaxRuns + MaxChunkReqs + MaxSubs)
RunSlots == 1..MaxRuns
ReqSlots == 1..MaxChunkReqs
SubSlots == 1..MaxSubs
NoRef == 0
None == <<0, "None">>   \* Python's None where a path is expected

(************************** dicts and files ********************************)
\* job.get(k, d)
Get(job, k, d) == IF k \in DOMAIN job THEN job[k] ELSE d

\* job[k] = v
Set(job, k, v) == (k :> v) @@ job

\* del d[k]
Del(d, k) == [x \in DOMAIN d \ {k} |-> d[x]]

Max(a, b) == IF a >= b THEN a ELSE b

\* f.seek(off); f.write(data) on a file whose content is f
SeekWrite(f, off, data) ==
    [p \in 1..Max(Len(f), off + Len(data)) |->
        IF p > off /\ p <= off + Len(data) THEN data[p - off]
        ELSE IF p <= Len(f) THEN f[p] ELSE 0]

\* os.path.join(UPLOAD_FOLDER, f"{job_id}_{filename}")
UploadPath(job_id, filename) == <<job_id, filename>>

\* os.path.join(OUTPUT_FOLDER, f"{job_id}_{base_name}_analyzed.mp4") and its siblings
OutputPath(job_id, kind) == <<job_id, kind>>

\* the object id a new dict gets: the lowest one free
Alloc(h) == CHOOSE o \in ObjIds : o \notin DOMAIN h /\ \A p \in 1..(o - 1) : p \in DOMAIN h

\* the dicts referenced by the registry, by a request frame, by a thread frame or by
\* the generator of a subscription
Refs(aj, cr, th, sb) ==
    {aj[k] : k \in DOMAIN aj}
        \cup {cr[r].job : r \in DOMAIN cr}
        \cup {th[t].job : t \in DOMAIN th}
        \cup {sb[s].job : s \in DOMAIN sb}

\* the dicts still referenced where the subscriptions keep theirs
Live(aj, cr, th) == Refs(aj, cr, th, subs)

\* reference counting: a dict nobody refers to is freed
Collect(h, aj, cr, th) == [o \in DOMAIN h \cap Live(aj, cr, th) |-> h[o]]

IdleReq == [pc |-> "idle", job_id |-> 0, job |-> NoRef, chunk_index |-> 0,
            chunk_data |-> << >>, progress |-> <<0, 1>>]

UnusedRun == [pc |-> "unused", job_id |-> 0, job |-> NoRef, result1 |-> -1, result2 |-> -1]

\* a subscription nobody has opened: no generator, nothing emitted
\* (gone_at: the iteration at which the client went away, -1 while it is reading)
UnusedSub == [pc |-> "unused", job_id |-> 0, job |-> NoRef, initial_status |-> "",
              last_progress |-> -1, iterations |-> 0, current_progress |-> 0,
              events |-> << >>, gone_at |-> -1]

\* the job dict registered under job_id
JobOf(job_id) == heap[active_jobs[job_id]]

Init ==
    /\ active_jobs = << >>
    /\ heap = << >>
    /\ files = << >>
    /\ outputs = {}
    /\ user_actions = [j \in JobIds |-> 0]
    /\ issued = {}
    /\ now = 0
    /\ chunkreqs = [r \in ReqSlots |-> IdleReq]
    /\ threads = [t \in RunSlots |-> UnusedRun]
    /\ subs = [s \in SubSlots |-> UnusedSub]
    /\ resp = [op |-> "none"]

(************************** upload-initiate ********************************)
ALLOWED_EXTENSIONS == {".mp4", ".avi", ".mov", ".mkv", ".m4v", ".wmv", ".flv", ".webm"}

\* A filename is <<stem, suffix>>; the empty string is <<"", "">>.
EmptyName == <<"", "">>

\* Path(filename).suffix
Suffix(filename) == filename[2]

\* str.lower() on the suffixes the model draws
Lower(s) ==
    CASE s = ".MP4" -> ".mp4"
      [] s = ".Mov" -> ".mov"
      [] s = ".TXT" -> ".txt"
      [] OTHER -> s

\* Python's a // b for b # 0 (floor division)
FloorDiv(a, b) == IF b > 0 THEN a \div b ELSE (0 - a) \div (0 - b)

\* total_chunks = (filesize + chunk_size - 1) // chunk_size
TotalChunks(filesize, chunk_size) == FloorDiv(filesize + chunk_size - 1, chunk_size)

\* the dict init_upload stores
NewJob(job_id, filename, filesize, chunk_size) ==
    [filename |-> <<job_id, filename>>,
     filepath |-> UploadPath(job_id, filename),
     original_name |-> filename,
     filesize |-> filesize,
     chunk_size |-> chunk_size,
     total_chunks |-> TotalChunks(filesize, chunk_size),
     uploaded_chunks |-> {},
     status |-> "uploading",
     upload_progress |-> <<0, 1>>,
     user |-> "user",
     created_at |-> now]

\* str(uuid.uuid4()): an id nobody has seen; the model draws the lowest one
FreshId == CHOOSE j \in JobIds \ issued : \A k \in JobIds \ issued : j <= k

\* InitUpload that allocates the job id and registers the job before it validates
InitUploadRegistersFirst(filename, filesize, chunk_size) ==
    /\ JobIds \ issued # {}
    /\ UNCHANGED <<outputs, user_actions, now, chunkreqs, threads, subs, files>>
    /\ LET job_id == FreshId
           o == Alloc(heap)
       IN  /\ issued' = issued \cup {job_id}
           /\ active_jobs' = Set(active_jobs, job_id, o)
           /\ heap' = Set(heap, o, NewJob(job_id, filename, filesize, Max(chunk_size, 1)))
           /\ resp' = IF filename = EmptyName \/ filesize = 0
                          \/ Lower(Suffix(filename)) \notin ALLOWED_EXTENSIONS
                       THEN [op |-> "init_upload", code |-> 400, error |-> "rejected"]
                       ELSE [op |-> "init_upload", code |-> 200, job_id |-> job_id,
                             chunk_size |-> chunk_size,
                             total_chunks |-> TotalChunks(filesize, Max(chunk_size, 1))]

\* POST /upload/init
InitUpload(filename, filesize, chunk_size) ==
    /\ JobIds \ issued # {}
    /\ UNCHANGED <<outputs, user_actions, now, chunkreqs, threads, subs>>
    /\ IF filename = EmptyName \/ filesize = 0
       THEN /\ resp' = [op |-> "init_upload", code |-> 400, error |-> "Missing filename or filesize"]
            /\ UNCHANGED <<active_jobs, heap, files, issued>>
       ELSE IF Lower(Suffix(filename)) \notin ALLOWED_EXTENSIONS
       THEN /\ resp' = [op |-> "init_upload", code |-> 400, error |-> "Unsupported file format"]
            /\ UNCHANGED <<active_jobs, heap, files, issued>>
       ELSE IF chunk_size = 0
       THEN \* ZeroDivisionError at line 1082: the request ends in a 500
            /\ resp' = [op |-> "init_upload", code |-> 500]
            /\ UNCHANGED <<active_jobs, heap, files, issued>>
       ELSE LET job_id == FreshId
                o == Alloc(heap)
                path == UploadPath(job_id, filename)
            IN  /\ issued' = issued \cup {job_id}
                /\ active_jobs' = Set(active_jobs, job_id, o)
                /\ heap' = Set(heap, o, NewJob(job_id, filename, filesize, chunk_size))
                /\ IF filesize - 1 < 0
                   THEN \* open(..., 'wb') made the file, f.seek raises OSError
                        /\ files' = Set(files, path, << >>)
                        /\ resp' = [op |-> "init_upload", code |-> 500]
                   ELSE /\ files' = Set(files, path, SeekWrite(<< >>, filesize - 1, <<0>>))
                        /\ resp' = [op |-> "init_upload", code |-> 200, job_id |-> job_id,
                                    chunk_size |-> chunk_size,
                                    total_chunks |-> TotalChunks(filesize, chunk_size)]

\* lines 1078-1102 when open(upload_filepath, 'wb'), the seek or the write raises an
\* OSError: the job is registered (line 1085), the file is there (`made`) or not, and
\* nothing catches the exception: the request ends in a 500
InitUploadFails(filename, filesize, chunk_size, made) ==
    /\ JobIds \ issued # {}
    /\ filename # EmptyName /\ filesize # 0
    /\ Lower(Suffix(filename)) \in ALLOWED_EXTENSIONS
    /\ chunk_size # 0
    /\ UNCHANGED <<outputs, user_actions, now, chunkreqs, threads, subs>>
    /\ LET job_id == FreshId
           o == Alloc(heap)
           path == UploadPath(job_id, filename)
       IN  /\ issued' = issued \cup {job_id}
           /\ active_jobs' = Set(active_jobs, job_id, o)
           /\ heap' = Set(heap, o, NewJob(job_id, filename, filesize, chunk_size))
           /\ files' = IF made THEN Set(files, path, << >>) ELSE files
           /\ resp' = [op |-> "init_upload", code |-> 500]

(**************************** chunk upload *********************************)
\* Percent with an integer division: len(...) // total_chunks * 100
PercentFloorDiv(job) == <<100 * (Cardinality(job.uploaded_chunks) \div job.total_chunks), 1>>

\* Percent without the division by total_chunks
PercentUndivided(job) == <<100 * Cardinality(job.uploaded_chunks), 1>>

\* len(job['uploaded_chunks']) / job['total_chunks'] * 100, as the rational <<numerator, denominator>>
Percent(job) == <<100 * Cardinality(job.uploaded_chunks), job.total_chunks>>

\* the slot a new request is served in
FreeSlot == CHOOSE r \in ReqSlots : chunkreqs[r].pc = "idle" /\ \A q \in 1..(r - 1) : chunkreqs[q].pc # "idle"

\* the request returns: its frame goes, and with it its reference to the dict
Return(r, h) ==
    LET cr == [chunkreqs EXCEPT ![r] = IdleReq]
    IN  /\ chunkreqs' = cr
        /\ heap' = Collect(h, active_jobs, cr, threads)

\* ChunkOutcome without the resumability check of line 1131
ChunkOutcomeNoResume(job_id, chunk_index, chunk_data) ==
    IF job_id \notin DOMAIN active_jobs THEN "Upload session not found"
    ELSE IF JobOf(job_id).status # "uploading" THEN "Upload session not active"
    ELSE IF chunk_index >= JobOf(job_id).total_chunks \/ chunk_index < 0 THEN "Invalid chunk index"
    ELSE IF chunk_data = << >> THEN "No chunk data received"
    ELSE "accepted"

\* ChunkOutcome with the range check of line 1127 off by one: chunk_index > total_chunks
ChunkOutcomeOffByOne(job_id, chunk_index, chunk_data) ==
    IF job_id \notin DOMAIN active_jobs THEN "Upload session not found"
    ELSE IF JobOf(job_id).status # "uploading" THEN "Upload session not active"
    ELSE IF chunk_index > JobOf(job_id).total_chunks \/ chunk_index < 0 THEN "Invalid chunk index"
    ELSE IF chunk_index \in JobOf(job_id).uploaded_chunks THEN "already_uploaded"
    ELSE IF chunk_data = << >> THEN "No chunk data received"
    ELSE "accepted"

\* ChunkOutcome without the empty-body check of line 1137
ChunkOutcomeAcceptsEmpty(job_id, chunk_index, chunk_data) ==
    IF job_id \notin DOMAIN active_jobs THEN "Upload session not found"
    ELSE IF JobOf(job_id).status # "uploading" THEN "Upload session not active"
    ELSE IF chunk_index >= JobOf(job_id).total_chunks \/ chunk_index < 0 THEN "Invalid chunk index"
    ELSE IF chunk_index \in JobOf(job_id).uploaded_chunks THEN "already_uploaded"
    ELSE "accepted"

\* lines 1119-1138: what the checks decide, in their order
ChunkOutcome(job_id, chunk_index, chunk_data) ==
    IF job_id \notin DOMAIN active_jobs THEN "Upload session not found"
    ELSE IF JobOf(job_id).status # "uploading" THEN "Upload session not active"
    ELSE IF chunk_index >= JobOf(job_id).total_chunks \/ chunk_index < 0 THEN "Invalid chunk index"
    ELSE IF chunk_index \in JobOf(job_id).uploaded_chunks THEN "already_uploaded"
    ELSE IF chunk_data = << >> THEN "No chunk data received"
    ELSE "accepted"

\* lines 1119-1138: the request is answered by a check, or goes on to write its chunk
ChunkCheck(job_id, chunk_index, chunk_data) ==
    /\ \E r \in ReqSlots : chunkreqs[r].pc = "idle"
    /\ UNCHANGED <<active_jobs, heap, files, outputs, user_actions, issued, now, threads, subs>>
    /\ LET outcome == ChunkOutcome(job_id, chunk_index, chunk_data) IN
       CASE outcome = "accepted" ->
                /\ chunkreqs' = [chunkreqs EXCEPT ![FreeSlot] =
                       [pc |-> "write", job_id |-> job_id, job |-> active_jobs[job_id],
                        chunk_index |-> chunk_index, chunk_data |-> chunk_data,
                        progress |-> <<0, 1>>]]
                /\ UNCHANGED resp
         [] outcome = "already_uploaded" ->
                /\ resp' = [op |-> "upload_chunk", code |-> 200, status |-> "already_uploaded",
                            progress |-> Percent(JobOf(job_id))]
                /\ UNCHANGED chunkreqs
         [] OTHER ->
                /\ resp' = [op |-> "upload_chunk",
                            code |-> IF outcome = "Upload session not found" THEN 404 ELSE 400,
                            error |-> outcome]
                /\ UNCHANGED chunkreqs

\* lines 1141-1143: open(job['filepath'], 'r+b'), seek, write
ChunkWrite(r) ==
    /\ chunkreqs[r].pc = "write"
    /\ UNCHANGED <<active_jobs, outputs, user_actions, issued, now, threads, subs>>
    /\ LET req == chunkreqs[r]
           job == heap[req.job]
       IN  IF job.filepath \notin DOMAIN files
           THEN \* FileNotFoundError, caught at line 1164
                /\ resp' = [op |-> "upload_chunk", code |-> 500]
                /\ Return(r, heap)
                /\ UNCHANGED files
           ELSE /\ files' = [files EXCEPT ![job.filepath] =
                                SeekWrite(@, req.chunk_index * job.chunk_size, req.chunk_data)]
                /\ chunkreqs' = [chunkreqs EXCEPT ![r].pc = "add"]
                /\ UNCHANGED <<heap, resp>>

\* ChunkWriteFails of a handler that records the index before it writes the chunk
ChunkWriteFailsAfterAdd(r, written) ==
    /\ chunkreqs[r].pc = "write"
    /\ UNCHANGED <<active_jobs, outputs, user_actions, issued, now, threads, subs>>
    /\ LET req == chunkreqs[r]
           job == heap[req.job]
       IN  /\ job.filepath \in DOMAIN files
           /\ written < Len(req.chunk_data)
           /\ files' = IF written = 0 THEN files
                       ELSE [files EXCEPT ![job.filepath] =
                                SeekWrite(@, req.chunk_index * job.chunk_size,
                                          SubSeq(req.chunk_data, 1, written))]
           /\ resp' = [op |-> "upload_chunk", code |-> 500]
           /\ Return(r, [heap EXCEPT ![req.job] =
                            Set(@, "uploaded_chunks", @.uploaded_chunks \cup {req.chunk_index})])

\* lines 1141-1143 and 1164-1166: open, seek or write raises an OSError after
\* `written` bytes of the chunk have reached the file; the handler answers 500
ChunkWriteFails(r, written) ==
    /\ chunkreqs[r].pc = "write"
    /\ UNCHANGED <<active_jobs, outputs, user_actions, issued, now, threads, subs>>
    /\ LET req == chunkreqs[r]
           job == heap[req.job]
       IN  /\ job.filepath \in DOMAIN files
           /\ written < Len(req.chunk_data)
           /\ files' = IF written = 0 THEN files
                       ELSE [files EXCEPT ![job.filepath] =
                                SeekWrite(@, req.chunk_index * job.chunk_size,
                                          SubSeq(req.chunk_data, 1, written))]
           /\ resp' = [op |-> "upload_chunk", code |-> 500]
           /\ Return(r, heap)

\* line 1146: job['uploaded_chunks'].add(chunk_index)
ChunkAdd(r) ==
    /\ chunkreqs[r].pc = "add"
    /\ UNCHANGED <<active_jobs, files, outputs, user_actions, issued, now, threads, resp, subs>>
    /\ LET req == chunkreqs[r] IN
       /\ heap' = [heap EXCEPT ![req.job] =
                      Set(@, "uploaded_chunks", @.uploaded_chunks \cup {req.chunk_index})]
       /\ chunkreqs' = [chunkreqs EXCEPT ![r].pc = "progress"]

\* line 1147: progress = len(job['uploaded_chunks']) / job['total_chunks'] * 100
ChunkProgress(r) ==
    /\ chunkreqs[r].pc = "progress"
    /\ UNCHANGED <<active_jobs, heap, files, outputs, user_actions, issued, now, threads, resp, subs>>
    /\ chunkreqs' = [chunkreqs EXCEPT ![r].pc = "store",
                                      ![r].progress = Percent(heap[chunkreqs[r].job])]

\* line 1148: job['upload_progress'] = progress
ChunkStore(r) ==
    /\ chunkreqs[r].pc = "store"
    /\ UNCHANGED <<active_jobs, files, outputs, user_actions, issued, now, threads, resp, subs>>
    /\ heap' = [heap EXCEPT ![chunkreqs[r].job] = Set(@, "upload_progress", chunkreqs[r].progress)]
    /\ chunkreqs' = [chunkreqs EXCEPT ![r].pc = "complete"]

\* lines 1151-1162: the completeness check, the transition and the response
ChunkComplete(r) ==
    /\ chunkreqs[r].pc = "complete"
    /\ UNCHANGED <<active_jobs, files, outputs, issued, now, threads, subs>>
    /\ LET req == chunkreqs[r]
           job == heap[req.job]
           complete == Cardinality(job.uploaded_chunks) = job.total_chunks
           after == IF complete THEN Set(job, "status", "uploaded") ELSE job
       IN  /\ user_actions' = IF complete
                              THEN [user_actions EXCEPT ![req.job_id] = @ + 1]
                              ELSE user_actions
           /\ resp' = [op |-> "upload_chunk", code |-> 200, status |-> "success",
                       progress |-> req.progress,
                       uploaded_chunks |-> Cardinality(job.uploaded_chunks),
                       total_chunks |-> job.total_chunks,
                       upload_complete |-> (after.status = "uploaded")]
           /\ Return(r, Set(heap, req.job, after))

(******************************* polls *************************************)
\* GET /upload/status/<job_id>
UploadStatus(job_id) ==
    /\ UNCHANGED <<active_jobs, heap, files, outputs, user_actions, issued, now, chunkreqs, threads, subs>>
    /\ IF job_id \notin DOMAIN active_jobs
       THEN resp' = [op |-> "upload_status", code |-> 404, error |-> "Job not found"]
       ELSE LET job == JobOf(job_id) IN
            resp' = [op |-> "upload_status", code |-> 200, job_id |-> job_id,
                     status |-> job.status,
                     progress |-> Get(job, "upload_progress", <<0, 1>>),
                     uploaded_chunks |-> Cardinality(Get(job, "uploaded_chunks", {})),
                     total_chunks |-> Get(job, "total_chunks", 0),
                     filename |-> Get(job, "original_name", EmptyName),
                     message |-> Get(job, "message", "")]

\* JobStatus that reports the results whatever the status
JobStatusAlwaysResults(job_id) ==
    /\ UNCHANGED <<active_jobs, heap, files, outputs, user_actions, issued, now, chunkreqs, threads, subs>>
    /\ IF job_id \notin DOMAIN active_jobs
       THEN resp' = [op |-> "job_status", code |-> 404, error |-> "Job not found"]
       ELSE LET job == JobOf(job_id) IN
            resp' = [op |-> "job_status", code |-> 200, job_id |-> job_id,
                     status |-> Get(job, "status", "unknown"),
                     progress |-> Get(job, "progress", 0),
                     message |-> Get(job, "message", "Processing..."),
                     results |-> [video |-> Get(job, "output_video", None),
                                  excel |-> Get(job, "output_excel", None)]]

\* GET /status/<job_id>
JobStatus(job_id) ==
    /\ UNCHANGED <<active_jobs, heap, files, outputs, user_actions, issued, now, chunkreqs, threads, subs>>
    /\ IF job_id \notin DOMAIN active_jobs
       THEN resp' = [op |-> "job_status", code |-> 404, error |-> "Job not found"]
       ELSE LET job == JobOf(job_id)
                data == [op |-> "job_status", code |-> 200, job_id |-> job_id,
                         status |-> Get(job, "status", "unknown"),
                         progress |-> Get(job, "progress", 0),
                         message |-> Get(job, "message", "Processing...")]
            IN  resp' = IF Get(job, "status", "none") = "completed"
                        THEN Set(data, "results",
                                 [video |-> Get(job, "output_video", None),
                                  excel |-> Get(job, "output_excel", None)])
                        ELSE data

(**************************** legacy upload ********************************)
\* POST /upload (deprecated): the client supplies the job id and the whole file
UploadLegacy(job_id, filename, content) ==
    /\ user_actions[job_id] < MaxLog
    /\ UNCHANGED <<outputs, now, chunkreqs, threads, subs>>
    /\ IF filename = EmptyName
       THEN /\ resp' = [op |-> "upload", code |-> 400, error |-> "No file selected"]
            /\ UNCHANGED <<active_jobs, heap, files, user_actions, issued>>
       ELSE IF Lower(Suffix(filename)) \notin ALLOWED_EXTENSIONS
       THEN /\ resp' = [op |-> "upload", code |-> 400, error |-> "Unsupported file format"]
            /\ UNCHANGED <<active_jobs, heap, files, user_actions, issued>>
       ELSE LET o == Alloc(heap)
                aj == Set(active_jobs, job_id, o)
                job == [filename |-> <<job_id, filename>>,
                        filepath |-> UploadPath(job_id, filename),
                        original_name |-> filename,
                        status |-> "uploaded",
                        user |-> "user"]
            IN  /\ files' = Set(files, UploadPath(job_id, filename), content)
                /\ active_jobs' = aj
                /\ heap' = Collect(Set(heap, o, job), aj, chunkreqs, threads)
                /\ issued' = issued \cup {job_id}
                /\ user_actions' = [user_actions EXCEPT ![job_id] = @ + 1]
                /\ resp' = [op |-> "upload", code |-> 200, job_id |-> job_id, status |-> "uploaded"]

(*************************** start-processing ******************************)
\* the slot the next pipeline thread runs in
FreeRun == CHOOSE t \in RunSlots : threads[t].pc = "unused" /\ \A q \in 1..(t - 1) : threads[q].pc # "unused"

\* StartProcessing that waits until no other pipeline thread is running
StartProcessingOneAtATime(job_id) ==
    /\ \E t \in RunSlots : threads[t].pc = "unused"
    /\ \A t \in RunSlots : threads[t].pc \in {"unused", "done", "died"}
    /\ UNCHANGED <<active_jobs, files, outputs, user_actions, issued, now, chunkreqs, subs>>
    /\ IF job_id \notin DOMAIN active_jobs
       THEN /\ resp' = [op |-> "process", code |-> 404, error |-> "Job not found"]
            /\ UNCHANGED <<heap, threads>>
       ELSE /\ heap' = [heap EXCEPT ![active_jobs[job_id]] = Set(@, "status", "processing")]
            /\ threads' = [threads EXCEPT ![FreeRun] =
                              [pc |-> "l1265", job_id |-> job_id, job |-> NoRef,
                               result1 |-> -1, result2 |-> -1]]
            /\ resp' = [op |-> "process", code |-> 200, job_id |-> job_id, status |-> "processing"]

\* POST /process
StartProcessing(job_id) ==
    /\ \E t \in RunSlots : threads[t].pc = "unused"
    /\ UNCHANGED <<active_jobs, files, outputs, user_actions, issued, now, chunkreqs, subs>>
    /\ IF job_id \notin DOMAIN active_jobs
       THEN /\ resp' = [op |-> "process", code |-> 404, error |-> "Job not found"]
            /\ UNCHANGED <<heap, threads>>
       ELSE /\ heap' = [heap EXCEPT ![active_jobs[job_id]] = Set(@, "status", "processing")]
            /\ threads' = [threads EXCEPT ![FreeRun] =
                              [pc |-> "l1265", job_id |-> job_id, job |-> NoRef,
                               result1 |-> -1, result2 |-> -1]]
            /\ resp' = [op |-> "process", code |-> 200, job_id |-> job_id, status |-> "processing"]

(************************* process_video_async *****************************)
\* Each step of the thread is one or more assignments to the dict it holds; the
\* steps are cut where another handler can observe a difference that a claim is
\* about: around each external invocation and between the assignments of lines
\* 1317-1319.

\* lines 1265-1276: job = active_jobs[job_id]; job['progress'] = 20; job['message'] = ...
PipeBegin(t) ==
    /\ threads[t].pc = "l1265"
    /\ UNCHANGED <<active_jobs, files, outputs, user_actions, issued, now, chunkreqs, resp, subs>>
    /\ IF threads[t].job_id \in DOMAIN active_jobs
       THEN LET o == active_jobs[threads[t].job_id] IN
            /\ heap' = [heap EXCEPT ![o] = Set(Set(@, "progress", 20), "message", "analysis starting")]
            /\ threads' = [threads EXCEPT ![t].pc = "l1285", ![t].job = o]
       ELSE \* KeyError; the handler at line 1326 reads the unbound `job` and the thread dies
            /\ threads' = [threads EXCEPT ![t].pc = "died"]
            /\ UNCHANGED heap

\* PipeAnalyze without the check of line 1287: whatever the return code, the thread goes on
PipeAnalyzeIgnoresCode(t, returncode) ==
    /\ threads[t].pc = "l1285"
    /\ UNCHANGED <<active_jobs, files, user_actions, issued, now, chunkreqs, resp, subs>>
    /\ returncode = 0 => heap[threads[t].job].filepath \in DOMAIN files
    /\ outputs' = IF returncode = 0
                  THEN outputs \cup {OutputPath(threads[t].job_id, "video"),
                                     OutputPath(threads[t].job_id, "csv")}
                  ELSE outputs
    /\ heap' = [heap EXCEPT ![threads[t].job] =
                   Set(Set(@, "progress", 60), "message", "creating report")]
    /\ threads' = [threads EXCEPT ![t].pc = "l1309", ![t].result1 = returncode]

\* lines 1285-1292: the external analyzer runs on the staged input and ends with a
\* return code.  Non-zero raises; with zero the analyzed video and the csv are in the
\* outputs folder, job['progress'] = 60 and job['message'] = ...
PipeAnalyze(t, returncode) ==
    /\ threads[t].pc = "l1285"
    /\ UNCHANGED <<active_jobs, files, user_actions, issued, now, chunkreqs, resp, subs>>
    /\ returncode = 0 => heap[threads[t].job].filepath \in DOMAIN files
    /\ IF returncode # 0
       THEN /\ threads' = [threads EXCEPT ![t].pc = "l1326", ![t].result1 = returncode]
            /\ UNCHANGED <<heap, outputs>>
       ELSE /\ outputs' = outputs \cup {OutputPath(threads[t].job_id, "video"),
                                        OutputPath(threads[t].job_id, "csv")}
            /\ heap' = [heap EXCEPT ![threads[t].job] =
                           Set(Set(@, "progress", 60), "message", "creating report")]
            /\ threads' = [threads EXCEPT ![t].pc = "l1309", ![t].result1 = returncode]

\* PipeReport without the check of line 1311: whatever the return code, the thread goes on
PipeReportIgnoresCode(t, returncode) ==
    /\ threads[t].pc = "l1309"
    /\ UNCHANGED <<active_jobs, files, user_actions, issued, now, chunkreqs, resp, subs>>
    /\ returncode = 0 => OutputPath(threads[t].job_id, "csv") \in outputs
    /\ outputs' = IF returncode = 0
                  THEN outputs \cup {OutputPath(threads[t].job_id, "excel")}
                  ELSE outputs
    /\ heap' = [heap EXCEPT ![threads[t].job] =
                   Set(Set(@, "progress", 100), "message", "analysis done")]
    /\ threads' = [threads EXCEPT ![t].pc = "l1317", ![t].result2 = returncode]

\* lines 1294-1316: the external report generator runs on the csv and ends with a
\* return code.  Non-zero raises; with zero the report is in the outputs folder,
\* job['progress'] = 100 and job['message'] = ...
PipeReport(t, returncode) ==
    /\ threads[t].pc = "l1309"
    /\ UNCHANGED <<active_jobs, files, user_actions, issued, now, chunkreqs, resp, subs>>
    /\ returncode = 0 => OutputPath(threads[t].job_id, "csv") \in outputs
    /\ IF returncode # 0
       THEN /\ threads' = [threads EXCEPT ![t].pc = "l1326", ![t].result2 = returncode]
            /\ UNCHANGED <<heap, outputs>>
       ELSE /\ outputs' = outputs \cup {OutputPath(threads[t].job_id, "excel")}
            /\ heap' = [heap EXCEPT ![threads[t].job] =
                           Set(Set(@, "progress", 100), "message", "analysis done")]
            /\ threads' = [threads EXCEPT ![t].pc = "l1317", ![t].result2 = returncode]

\* PipeCompleted that stores the dict back under its job id
PipeCompletedReinserts(t) ==
    /\ threads[t].pc = "l1317"
    /\ UNCHANGED <<files, outputs, user_actions, issued, now, chunkreqs, resp, subs>>
    /\ LET th == [threads EXCEPT ![t].pc = "l1318"]
           aj == Set(active_jobs, threads[t].job_id, threads[t].job)
           hp == [heap EXCEPT ![threads[t].job] = Set(@, "status", "completed")]
       IN  /\ threads' = th
           /\ active_jobs' = aj
           /\ heap' = Collect(hp, aj, chunkreqs, th)

\* line 1317: job['status'] = 'completed'
PipeCompleted(t) ==
    /\ threads[t].pc = "l1317"
    /\ UNCHANGED <<active_jobs, files, outputs, user_actions, issued, now, chunkreqs, resp, subs>>
    /\ heap' = [heap EXCEPT ![threads[t].job] = Set(@, "status", "completed")]
    /\ threads' = [threads EXCEPT ![t].pc = "l1318"]

\* line 1318: job['output_video'] = output_video
PipeOutputVideo(t) ==
    /\ threads[t].pc = "l1318"
    /\ UNCHANGED <<active_jobs, files, outputs, user_actions, issued, now, chunkreqs, resp, subs>>
    /\ heap' = [heap EXCEPT ![threads[t].job] =
                   Set(@, "output_video", OutputPath(threads[t].job_id, "video"))]
    /\ threads' = [threads EXCEPT ![t].pc = "l1319"]

\* PipeOutputExcel that drops the finished job from the registry
PipeOutputExcelRemovesJob(t) ==
    /\ threads[t].pc = "l1319"
    /\ UNCHANGED <<files, outputs, user_actions, issued, now, chunkreqs, resp, subs>>
    /\ LET th == [threads EXCEPT ![t].pc = "done"]
           aj == Del(active_jobs, threads[t].job_id)
           hp == [heap EXCEPT ![threads[t].job] =
                     Set(@, "output_excel", OutputPath(threads[t].job_id, "excel"))]
       IN  /\ threads' = th
           /\ active_jobs' = aj
           /\ heap' = Collect(hp, aj, chunkreqs, th)

\* lines 1319-1323: job['output_excel'] = output_excel, and the thread ends
PipeOutputExcel(t) ==
    /\ threads[t].pc = "l1319"
    /\ UNCHANGED <<active_jobs, files, outputs, user_actions, issued, now, chunkreqs, resp, subs>>
    /\ heap' = [heap EXCEPT ![threads[t].job] =
                   Set(@, "output_excel", OutputPath(threads[t].job_id, "excel"))]
    /\ threads' = [threads EXCEPT ![t].pc = "done"]

\* PipeError rolling back the run: it also removes the analyzed video
PipeErrorRollsBack(t) ==
    /\ threads[t].pc = "l1326"
    /\ UNCHANGED <<active_jobs, files, user_actions, issued, now, chunkreqs, resp, subs>>
    /\ outputs' = outputs \ {OutputPath(threads[t].job_id, "video")}
    /\ heap' = [heap EXCEPT ![threads[t].job] =
                   Set(Set(@, "status", "error"), "message",
                       IF threads[t].result1 # 0 THEN "Video processing failed"
                       ELSE "Excel generation failed")]
    /\ threads' = [threads EXCEPT ![t].pc = "done"]

\* lines 1325-1328: job['status'] = 'error'; job['message'] = the diagnostic of the
\* stage that failed, and the thread ends
PipeError(t) ==
    /\ threads[t].pc = "l1326"
    /\ UNCHANGED <<active_jobs, files, outputs, user_actions, issued, now, chunkreqs, resp, subs>>
    /\ heap' = [heap EXCEPT ![threads[t].job] =
                   Set(Set(@, "status", "error"), "message",
                       IF threads[t].result1 # 0 THEN "Video processing failed"
                       ELSE "Excel generation failed")]
    /\ threads' = [threads EXCEPT ![t].pc = "done"]

(******************************* cleanup ***********************************)
\* CleanupUpload that leaves the staging file where it is
CleanupUploadKeepsFile(job_id) ==
    /\ UNCHANGED <<outputs, user_actions, issued, now, chunkreqs, threads, subs, files>>
    /\ IF job_id \notin DOMAIN active_jobs
       THEN /\ resp' = [op |-> "cleanup", code |-> 404, error |-> "Job not found"]
            /\ UNCHANGED <<active_jobs, heap>>
       ELSE LET aj == Del(active_jobs, job_id)
            IN  /\ active_jobs' = aj
                /\ heap' = Collect(heap, aj, chunkreqs, threads)
                /\ resp' = [op |-> "cleanup", code |-> 200, status |-> "cleaned_up"]

\* DELETE /upload/cleanup/<job_id>
CleanupUpload(job_id) ==
    /\ UNCHANGED <<outputs, user_actions, issued, now, chunkreqs, threads, subs>>
    /\ IF job_id \notin DOMAIN active_jobs
       THEN /\ resp' = [op |-> "cleanup", code |-> 404, error |-> "Job not found"]
            /\ UNCHANGED <<active_jobs, heap, files>>
       ELSE LET job == JobOf(job_id)
                aj == Del(active_jobs, job_id)
            IN  /\ files' = IF "filepath" \in DOMAIN job THEN Del(files, job.filepath) ELSE files
                /\ active_jobs' = aj
                /\ heap' = Collect(heap, aj, chunkreqs, threads)
                /\ resp' = [op |-> "cleanup", code |-> 200, status |-> "cleaned_up"]

\* lines 983 and 994-996: os.remove raises an OSError; the job stays registered
CleanupUploadFails(job_id) ==
    /\ job_id \in DOMAIN active_jobs
    /\ "filepath" \in DOMAIN JobOf(job_id) /\ JobOf(job_id).filepath \in DOMAIN files
    /\ UNCHANGED <<active_jobs, heap, files, outputs, user_actions, issued, now, chunkreqs,
                   threads, subs>>
    /\ resp' = [op |-> "cleanup", code |-> 500]

(******************************* download **********************************)
\* DownloadResult without the status check of line 1431
DownloadResultAnyStatus(job_id, file_type) ==
    /\ UNCHANGED <<active_jobs, heap, files, outputs, user_actions, issued, now, chunkreqs, threads,
                   subs>>
    /\ IF job_id \notin DOMAIN active_jobs
       THEN resp' = [op |-> "download", code |-> 404, error |-> "Job not found"]
       ELSE LET job == JobOf(job_id)
                key == IF file_type = "video" THEN "output_video" ELSE "output_excel"
            IN  IF file_type \notin {"video", "excel"}
                THEN resp' = [op |-> "download", code |-> 400, error |-> "Invalid file type"]
                ELSE IF key \notin DOMAIN job
                THEN resp' = [op |-> "download", code |-> 500]
                ELSE IF job[key] \notin outputs
                THEN resp' = [op |-> "download", code |-> 404, error |-> "File not found"]
                ELSE resp' = [op |-> "download", code |-> 200, job_id |-> job_id, file |-> job[key]]

\* GET /download/<job_id>/<file_type>
DownloadResult(job_id, file_type) ==
    /\ UNCHANGED <<active_jobs, heap, files, outputs, user_actions, issued, now, chunkreqs, threads,
                   subs>>
    /\ IF job_id \notin DOMAIN active_jobs
       THEN resp' = [op |-> "download", code |-> 404, error |-> "Job not found"]
       ELSE LET job == JobOf(job_id)
                key == IF file_type = "video" THEN "output_video" ELSE "output_excel"
            IN  IF job.status # "completed"
                THEN resp' = [op |-> "download", code |-> 400, error |-> "Processing not completed"]
                ELSE IF file_type \notin {"video", "excel"}
                THEN resp' = [op |-> "download", code |-> 400, error |-> "Invalid file type"]
                ELSE IF key \notin DOMAIN job
                THEN \* KeyError, caught at line 1450
                     resp' = [op |-> "download", code |-> 500]
                ELSE IF job[key] \notin outputs
                THEN resp' = [op |-> "download", code |-> 404, error |-> "File not found"]
                ELSE resp' = [op |-> "download", code |-> 200, job_id |-> job_id, file |-> job[key]]

(************************* progress subscription ***************************)
\* while iterations < 120
SubMaxIterations == 120

\* the slot the next subscription runs in
FreeSub == CHOOSE s \in SubSlots : subs[s].pc = "unused" /\ \A q \in 1..(s - 1) : subs[q].pc # "unused"

\* the generator ends: its frame goes, and with it its reference to the dict
SubEnd(s, events) ==
    LET sb == [subs EXCEPT ![s].pc = "done", ![s].job = NoRef, ![s].events = events]
    IN  /\ subs' = sb
        /\ heap' = [o \in DOMAIN heap \cap Refs(active_jobs, chunkreqs, threads, sb) |-> heap[o]]

\* Subscribe that lets the timeout marker follow the event of an unknown job
SubscribeUnknownTimesOut(job_id) ==
    /\ \E s \in SubSlots : subs[s].pc = "unused"
    /\ UNCHANGED <<active_jobs, heap, files, outputs, user_actions, issued, now, chunkreqs, threads,
                   resp>>
    /\ IF job_id \notin DOMAIN active_jobs
       THEN subs' = [subs EXCEPT ![FreeSub] =
                        [UnusedSub EXCEPT !.pc = "done", !.job_id = job_id,
                            !.events = <<[kind |-> "notfound", status |-> "error",
                                          message |-> "Job not found"],
                                         [kind |-> "timeout", status |-> "timeout",
                                          message |-> "Monitoring timed out"]>>]]
       ELSE subs' = [subs EXCEPT ![FreeSub] =
                        [UnusedSub EXCEPT !.pc = "loop", !.job_id = job_id,
                                          !.job = active_jobs[job_id],
                                          !.initial_status = JobOf(job_id).status]]

\* GET /progress/<job_id>, lines 1336-1345: the generator starts and logs the status
\* it finds; an unknown job id is answered with one error event
Subscribe(job_id) ==
    /\ \E s \in SubSlots : subs[s].pc = "unused"
    /\ UNCHANGED <<active_jobs, heap, files, outputs, user_actions, issued, now, chunkreqs, threads,
                   resp>>
    /\ IF job_id \notin DOMAIN active_jobs
       THEN subs' = [subs EXCEPT ![FreeSub] =
                        [UnusedSub EXCEPT !.pc = "done", !.job_id = job_id,
                            !.events = <<[kind |-> "notfound", status |-> "error",
                                          message |-> "Job not found"]>>]]
       ELSE subs' = [subs EXCEPT ![FreeSub] =
                        [UnusedSub EXCEPT !.pc = "loop", !.job_id = job_id,
                                          !.job = active_jobs[job_id],
                                          !.initial_status = JobOf(job_id).status]]

\* line 1347: while iterations < 120
LoopGoesOn(iterations) == iterations < SubMaxIterations

\* lines 1347-1348: the loop test holds, current_progress = job.get('progress', 0)
SubReadProgress(s) ==
    /\ subs[s].pc = "loop"
    /\ LoopGoesOn(subs[s].iterations)
    /\ UNCHANGED <<active_jobs, heap, files, outputs, user_actions, issued, now, chunkreqs, threads,
                   resp>>
    /\ subs' = [subs EXCEPT ![s].pc = "status",
                            ![s].current_progress = Get(heap[subs[s].job], "progress", 0)]

\* ShouldSend leaving the terminal statuses to the final event
ShouldSendUnlessTerminal(current_progress, last_progress, current_status) ==
    current_progress # last_progress /\ current_status \notin {"completed", "error"}

\* line 1355: current_progress != last_progress or current_status in ['completed', 'error']
ShouldSend(current_progress, last_progress, current_status) ==
    current_progress # last_progress \/ current_status \in {"completed", "error"}

\* Slept that does not count the iteration
SleptUncounted(iterations) == iterations

\* lines 1385-1386: time.sleep(1); iterations += 1
Slept(iterations) == iterations + 1

\* SubReadStatus without the break of lines 1375 and 1383: after the final event the
\* generator sleeps and samples again
SubReadStatusNoBreak(s) ==
    /\ subs[s].pc = "status"
    /\ UNCHANGED <<active_jobs, files, outputs, user_actions, issued, now, chunkreqs, threads, resp>>
    /\ LET sub == subs[s]
           job == heap[sub.job]
           current_status == Get(job, "status", "unknown")
           send == ShouldSend(sub.current_progress, sub.last_progress, current_status)
           data == [kind |-> "update", status |-> current_status,
                    progress |-> sub.current_progress,
                    message |-> Get(job, "message", "Processing...")]
           sent == IF send THEN Append(sub.events, data) ELSE sub.events
           final == IF current_status = "completed"
                    THEN Append(sent,
                            [kind |-> "final", status |-> "completed", progress |-> 100,
                             results |-> [video |-> Get(job, "output_video", None),
                                          excel |-> Get(job, "output_excel", None)]])
                    ELSE IF current_status = "error"
                    THEN Append(sent,
                            [kind |-> "final", status |-> "error",
                             message |-> Get(job, "message", "Unknown error")])
                    ELSE sent
       IN  /\ subs' = [subs EXCEPT ![s].pc = "loop",
                                   ![s].events = final,
                                   ![s].last_progress =
                                       IF send THEN sub.current_progress ELSE @,
                                   ![s].iterations = Slept(@)]
           /\ UNCHANGED heap

\* lines 1349-1386: current_status and current_message are read; the snapshot is
\* emitted if the progress differs from the last one emitted or the status is
\* terminal; on a terminal status the final event follows and the loop is left,
\* otherwise the generator sleeps a second and counts the iteration
SubReadStatus(s) ==
    /\ subs[s].pc = "status"
    /\ UNCHANGED <<active_jobs, files, outputs, user_actions, issued, now, chunkreqs, threads, resp>>
    /\ LET sub == subs[s]
           job == heap[sub.job]
           current_status == Get(job, "status", "unknown")
           send == ShouldSend(sub.current_progress, sub.last_progress, current_status)
           data == [kind |-> "update", status |-> current_status,
                    progress |-> sub.current_progress,
                    message |-> Get(job, "message", "Processing...")]
           sent == IF send THEN Append(sub.events, data) ELSE sub.events
       IN  IF current_status = "completed"
           THEN SubEnd(s, Append(sent,
                    [kind |-> "final", status |-> "completed", progress |-> 100,
                     results |-> [video |-> Get(job, "output_video", None),
                                  excel |-> Get(job, "output_excel", None)]]))
           ELSE IF current_status = "error"
           THEN SubEnd(s, Append(sent,
                    [kind |-> "final", status |-> "error",
                     message |-> Get(job, "message", "Unknown error")]))
           ELSE /\ subs' = [subs EXCEPT ![s].pc = "loop",
                                        ![s].events = sent,
                                        ![s].last_progress =
                                            IF send THEN sub.current_progress ELSE @,
                                        ![s].iterations = Slept(@)]
                /\ UNCHANGED heap

\* lines 1347 and 1388-1390: the loop test fails after 120 iterations; the timeout
\* marker is emitted and the generator ends
SubTimeout(s) ==
    /\ subs[s].pc = "loop"
    /\ ~LoopGoesOn(subs[s].iterations)
    /\ UNCHANGED <<active_jobs, files, outputs, user_actions, issued, now, chunkreqs, threads, resp>>
    /\ SubEnd(s, Append(subs[s].events,
                        [kind |-> "timeout", status |-> "timeout",
                         message |-> "Monitoring timed out"]))

\* the client of the streamed Response goes away; nothing in generate() is told
Disconnect(s) ==
    /\ subs[s].pc \in {"loop", "status"}
    /\ subs[s].gone_at = -1
    /\ subs[s].iterations <= MaxGoneAt
    /\ UNCHANGED <<active_jobs, heap, files, outputs, user_actions, issued, now, chunkreqs, threads,
                   resp>>
    /\ subs' = [subs EXCEPT ![s].gone_at = subs[s].iterations]

\* line 1361: the event handed over at the yield cannot be written to a client that
\* has gone, and the server closes the generator (GeneratorExit at the yield).  The
\* write may as well go through unnoticed: then SubReadStatus is the step taken.
SubClose(s) ==
    /\ subs[s].pc = "status"
    /\ subs[s].gone_at # -1
    /\ ShouldSend(subs[s].current_progress, subs[s].last_progress,
                  Get(heap[subs[s].job], "status", "unknown"))
    /\ UNCHANGED <<active_jobs, files, outputs, user_actions, issued, now, chunkreqs, threads, resp>>
    /\ LET sb == [subs EXCEPT ![s].pc = "closed", ![s].job = NoRef]
       IN  /\ subs' = sb
           /\ heap' = [o \in DOMAIN heap \cap Refs(active_jobs, chunkreqs, threads, sb) |-> heap[o]]

(******************************** reaper ***********************************)
\* Time is counted in hours.
\* timedelta(hours=24)
RETENTION_HOURS == 24

\* the wall clock moves on
Tick ==
    /\ now + TickHours <= MaxNow
    /\ now' = now + TickHours
    /\ UNCHANGED <<active_jobs, heap, files, outputs, user_actions, issued, chunkreqs, threads,
                   subs, resp>>

\* lines 75-88: the job ids the sweep collects in to_remove
ToRemove ==
    {j \in DOMAIN active_jobs :
        /\ "created_at" \in DOMAIN JobOf(j)
        /\ JobOf(j).created_at < now - RETENTION_HOURS}

\* lines 79-81: the staging files the sweep calls os.remove on
Incomplete ==
    {JobOf(j).filepath :
        j \in {k \in ToRemove : Get(JobOf(k), "status", "") = "uploading"
                                /\ "filepath" \in DOMAIN JobOf(k)}} \cap DOMAIN files

\* CleanupOldSessions without the try of line 80: the first os.remove that raises
\* ends the sweep in the handler of line 93, before anything is deleted from the
\* registry
CleanupOldSessionsAborts ==
    /\ UNCHANGED <<outputs, user_actions, issued, now, chunkreqs, threads, subs, resp>>
    /\ \E failing \in SUBSET Incomplete :
          IF failing # {}
          THEN /\ \E removed \in SUBSET (Incomplete \ failing) :
                     files' = [f \in DOMAIN files \ removed |-> files[f]]
               /\ UNCHANGED <<active_jobs, heap>>
          ELSE LET aj == [j \in DOMAIN active_jobs \ ToRemove |-> active_jobs[j]]
               IN  /\ files' = [f \in DOMAIN files \ Incomplete |-> files[f]]
                   /\ active_jobs' = aj
                   /\ heap' = Collect(heap, aj, chunkreqs, threads)

\* cleanup_old_sessions(): the staging files of the collected jobs that are still
\* uploading are removed, except those (`failing`) whose os.remove raises, which is
\* logged at line 85; then every collected job is deleted from the registry
CleanupOldSessions ==
    /\ UNCHANGED <<outputs, user_actions, issued, now, chunkreqs, threads, subs, resp>>
    /\ \E failing \in SUBSET Incomplete :
          LET aj == [j \in DOMAIN active_jobs \ ToRemove |-> active_jobs[j]]
          IN  /\ files' = [f \in DOMAIN files \ (Incomplete \ failing) |-> files[f]]
              /\ active_jobs' = aj
              /\ heap' = Collect(heap, aj, chunkreqs, threads)

(**************************** specifications *******************************)
\* the filenames, sizes, bodies, indexes and return codes the environment draws from
FileNames == {<<"a", ".MP4">>, <<"c", ".txt">>, EmptyName}
FileSizes == 0..MaxFilesize
ChunkSizes == 1..MaxChunkSize
Bodies == {[p \in 1..n |-> 1] : n \in 0..MaxBody}
ChunkIndexes == (0 - 1)..(MaxFilesize + 1)
ReturnCodes == {0, 1}
FileTypes == {"video", "excel", "pdf"}

\* no upload_chunk request is being served
Quiet == \A r \in ReqSlots : chunkreqs[r].pc = "idle"

\* an upload_chunk request being served takes its next step
ChunkStep ==
    \E r \in ReqSlots :
        ChunkWrite(r) \/ ChunkAdd(r) \/ ChunkProgress(r) \/ ChunkStore(r) \/ ChunkComplete(r)

\* a pipeline thread takes its next step
PipeStep ==
    \E t \in RunSlots :
        \/ PipeBegin(t)
        \/ \E rc \in ReturnCodes : PipeAnalyze(t, rc)
        \/ \E rc \in ReturnCodes : PipeReport(t, rc)
        \/ PipeCompleted(t) \/ PipeOutputVideo(t) \/ PipeOutputExcel(t)
        \/ PipeError(t)

\* Spec, the job lifecycle: every handler and the pipeline threads.  Requests are
\* served one at a time, the pipeline threads run beside them.  Uploads are of one
\* geometry (the largest file in the largest chunks) and chunks come whole.
LifeBodies == {<< >>, [p \in 1..MaxChunkSize |-> 1]}

\* another job id may come into use
RoomForJob == Cardinality(issued) < MaxJobs

\* the job ids a client can name: those in use and, while there is room, a new one
ClientIds == issued \cup (IF RoomForJob /\ JobIds \ issued # {} THEN {FreshId} ELSE {})

Request ==
    \/ \E f \in FileNames, s \in {0, MaxFilesize} :
          Quiet /\ RoomForJob /\ InitUpload(f, s, MaxChunkSize)
    \/ \E j \in JobIds, i \in ChunkIndexes, d \in LifeBodies : Quiet /\ ChunkCheck(j, i, d)
    \/ \E j \in JobIds : Quiet /\ UploadStatus(j)
    \/ \E j \in JobIds : Quiet /\ JobStatus(j)
    \/ \E j \in ClientIds, f \in FileNames :
          Quiet /\ UploadLegacy(j, f, [p \in 1..MaxFilesize |-> 1])
    \/ \E j \in JobIds : Quiet /\ StartProcessing(j)
    \/ \E j \in JobIds : Quiet /\ CleanupUpload(j)
    \/ \E j \in JobIds, k \in FileTypes : Quiet /\ DownloadResult(j, k)

Next == Request \/ ChunkStep \/ PipeStep

Spec == Init /\ [][Next]_vars

\* SpecUpload, the upload session: uploads of every geometry and chunk bodies of
\* every length, delivered one request at a time, with the two polls.
UploadRequest ==
    \/ \E f \in FileNames, s \in FileSizes, c \in ChunkSizes : Quiet /\ InitUpload(f, s, c)
    \/ \E j \in JobIds, i \in ChunkIndexes, d \in Bodies : Quiet /\ ChunkCheck(j, i, d)
    \/ \E j \in JobIds : Quiet /\ UploadStatus(j)
    \/ \E j \in JobIds : Quiet /\ JobStatus(j)

NextUpload == UploadRequest \/ ChunkStep

SpecUpload == Init /\ [][NextUpload]_vars

\* SpecConc, concurrent chunk uploads to one job: up to MaxChunkReqs upload_chunk
\* requests are served at the same time (app.run(threaded=True)).  The client sends
\* the chunks of a job side by side, and an index again only once the request before
\* it for that index has returned.
NotInFlight(j, i) ==
    \A r \in ReqSlots :
        chunkreqs[r].pc = "idle" \/ chunkreqs[r].job_id # j \/ chunkreqs[r].chunk_index # i

ConcRequest ==
    \/ \E f \in FileNames, s \in FileSizes, c \in ChunkSizes : RoomForJob /\ InitUpload(f, s, c)
    \/ \E j \in JobIds, i \in ChunkIndexes, d \in Bodies : NotInFlight(j, i) /\ ChunkCheck(j, i, d)
    \/ \E j \in JobIds : UploadStatus(j)

NextConc == ConcRequest \/ ChunkStep

SpecConc == Init /\ [][NextConc]_vars

\* no pipeline thread is running
NoRunActive == \A t \in RunSlots : threads[t].pc \in {"unused", "done", "died"}

\* no subscription has been opened
NoSubOpened == \A s \in SubSlots : subs[s].pc = "unused"

\* SpecSub, a progress subscription beside the pipeline: a job comes in whole by
\* the legacy upload and start-processing is called on it; a client subscribes to its
\* progress at any moment, before or after.  While nobody has subscribed, a job
\* whose run has ended may be started again.
SubRequest ==
    \/ \E j \in ClientIds : RoomForJob /\ UploadLegacy(j, <<"a", ".MP4">>, [p \in 1..MaxFilesize |-> 1])
    \/ \E j \in JobIds : (NoSubOpened \/ threads = [t \in RunSlots |-> UnusedRun])
                             /\ NoRunActive /\ StartProcessing(j)
    \/ \E j \in JobIds : Subscribe(j)

\* the generator of a subscription takes its next step
SubStep ==
    \E s \in SubSlots : SubReadProgress(s) \/ SubReadStatus(s) \/ SubTimeout(s)

NextSub == SubRequest \/ PipeStep \/ SubStep

SpecSub == Init /\ [][NextSub]_vars

\* SpecGone, SpecSub with clients that go away while their subscription runs.
GoneStep == \E s \in SubSlots : Disconnect(s) \/ SubClose(s)

NextGone == SubRequest \/ PipeStep \/ SubStep \/ GoneStep

SpecGone == Init /\ [][NextGone]_vars

\* SpecPar, two jobs side by side: both are uploaded in chunks, polled and started
\* while the pipeline thread of the other runs.
WholeChunk == [p \in 1..MaxChunkSize |-> 1]

ParRequest ==
    \/ Quiet /\ InitUpload(<<"a", ".MP4">>, MaxFilesize, MaxChunkSize)
    \/ \E j \in JobIds, i \in 0..1 : Quiet /\ ChunkCheck(j, i, WholeChunk)
    \/ \E j \in JobIds : Quiet /\ UploadStatus(j)
    \/ \E j \in JobIds : Quiet /\ JobStatus(j)
    \/ \E j \in JobIds : Quiet /\ StartProcessing(j)

NextPar == ParRequest \/ ChunkStep \/ PipeStep

SpecPar == Init /\ [][NextPar]_vars

\* SpecGeom, the geometry of an upload: upload-initiate with every chunk_size a
\* client can put in the JSON body, zero and negative ones included, followed by the
\* chunk uploads of the job.
AnyChunkSizes == (0 - MaxChunkSize)..MaxChunkSize

GeomRequest ==
    \/ \E s \in FileSizes, c \in AnyChunkSizes :
          Quiet /\ RoomForJob /\ InitUpload(<<"a", ".MP4">>, s, c)
    \/ \E j \in JobIds, i \in ChunkIndexes, d \in Bodies : Quiet /\ ChunkCheck(j, i, d)
    \/ \E j \in JobIds : Quiet /\ UploadStatus(j)

NextGeom == GeomRequest \/ ChunkStep

SpecGeom == Init /\ [][NextGeom]_vars

\* SpecReaper, the sweep over the registries the handlers build: the program calls
\* cleanup_old_sessions() once, at import, when the registry is still empty (the
\* state Init describes); here the sweep runs again at any later moment at which no
\* chunk request is being served, while the clock moves on.
ReaperRequest ==
    \/ Quiet /\ InitUpload(<<"a", ".MP4">>, MaxFilesize, MaxChunkSize)
    \/ \E j \in JobIds, i \in 0..1 : Quiet /\ ChunkCheck(j, i, [p \in 1..MaxChunkSize |-> 1])
    \/ \E j \in JobIds : Quiet /\ UploadLegacy(j, <<"a", ".MP4">>, [p \in 1..MaxFilesize |-> 1])
    \/ \E j \in JobIds : Quiet /\ UploadStatus(j)
    \/ Quiet /\ Tick
    \/ Quiet /\ CleanupOldSessions

NextReaper == ReaperRequest \/ ChunkStep

SpecReaper == Init /\ [][NextReaper]_vars

\* SpecIO, an upload session on a disk that may fail: creating the staging file,
\* writing a chunk and removing the file may each raise an OSError.
IORequest ==
    \/ \E s \in FileSizes, c \in ChunkSizes :
          Quiet /\ RoomForJob /\ InitUpload(<<"a", ".MP4">>, s, c)
    \/ \E s \in FileSizes, c \in ChunkSizes, made \in BOOLEAN :
          Quiet /\ RoomForJob /\ InitUploadFails(<<"a", ".MP4">>, s, c, made)
    \/ \E j \in JobIds, i \in ChunkIndexes, d \in Bodies : Quiet /\ ChunkCheck(j, i, d)
    \/ \E j \in JobIds : Quiet /\ UploadStatus(j)
    \/ \E j \in JobIds : Quiet /\ CleanupUpload(j)
    \/ \E j \in JobIds : Quiet /\ CleanupUploadFails(j)

IOStep == \E r \in ReqSlots, n \in 0..(MaxBody - 1) : ChunkWriteFails(r, n)

NextIO == IORequest \/ ChunkStep \/ IOStep

SpecIO == Init /\ [][NextIO]_vars

\* the next step of pipeline thread t
PipeThread(t) ==
    \/ PipeBegin(t)
    \/ \E rc \in ReturnCodes : PipeAnalyze(t, rc)
    \/ \E rc \in ReturnCodes : PipeReport(t, rc)
    \/ PipeCompleted(t) \/ PipeOutputVideo(t) \/ PipeOutputExcel(t)
    \/ PipeError(t)

\* SpecLive, the pipeline under fair scheduling: jobs come in by the legacy upload
\* and are started, polled, cleaned up and started again at any moment; every external
\* invocation returns, and a pipeline thread that can take a step eventually takes it.
LiveRequest ==
    \/ \E j \in JobIds : UploadLegacy(j, <<"a", ".MP4">>, [p \in 1..MaxFilesize |-> 1])
    \/ \E j \in JobIds : StartProcessing(j)
    \/ \E j \in JobIds : JobStatus(j)
    \/ \E j \in JobIds : CleanupUpload(j)

NextLive == LiveRequest \/ PipeStep

SpecLive == Init /\ [][NextLive]_vars /\ \A t \in RunSlots : WF_vars(PipeThread(t))

(******************************* claims ************************************)
\* the status of the job registered under j
StatusOf(j) == JobOf(j).status

\* the runs (pipeline threads) ever started for job id j
RunsOf(j) == {t \in RunSlots : threads[t].pc # "unused" /\ threads[t].job_id = j}

\* the run of thread t had the analyzer, resp. the report generator, exit non-zero
Failed1(t) == threads[t].result1 \notin {0, -1}
Failed2(t) == threads[t].result2 \notin {0, -1}

\* two rationals <<n, d>> are the same number
RatEq(a, b) == a[1] * b[2] = b[1] * a[2]

AllowedTransitions ==
    {<<"uploading", "uploaded">>, <<"uploaded", "processing">>,
     <<"processing", "completed">>, <<"processing", "error">>}

\* C1 (Spec): whatever the handlers and threads do, each change of the status of a
\* job id that stays in the registry is uploading->uploaded, uploaded->processing,
\* processing->completed or processing->error.
C1_StatusTransitions ==
    [][\A j \in JobIds :
          (j \in DOMAIN active_jobs /\ j \in DOMAIN active_jobs') =>
              \/ heap'[active_jobs'[j]].status = StatusOf(j)
              \/ <<StatusOf(j), heap'[active_jobs'[j]].status>> \in AllowedTransitions]_vars

\* C2 (SpecConc): under any interleaving of concurrent chunk requests to a job, the
\* transition to uploaded and its 'file_upload' log entry happen at most once.
C2_UploadedOnce == \A j \in JobIds : user_actions[j] <= 1

\* C3 (Spec): start-processing launches a pipeline thread only for a registered job
\* whose status is uploaded; otherwise it is rejected and launches nothing.
C3_StartOnlyUploaded ==
    [][\A t \in RunSlots :
          (threads[t].pc = "unused" /\ threads'[t].pc # "unused") =>
              /\ threads'[t].job_id \in DOMAIN active_jobs
              /\ StatusOf(threads'[t].job_id) = "uploaded"]_vars

\* C4 (Spec): at most one processing run has ever been started for a job id.
C4_OneRunPerJob == \A j \in JobIds : Cardinality(RunsOf(j)) <= 1

\* C5 (Spec): a job-status poll that reports completed reports both artifact paths.
C5_CompletedHasOutputs ==
    (resp.op = "job_status" /\ resp.code = 200 /\ resp.status = "completed") =>
        (resp.results.video # None /\ resp.results.excel # None)

\* C6 (Spec): a run whose analyzer exits non-zero never invokes the report generator
\* (result2 stays unassigned), and its next step sets the job's status to error.
C6_AnalyzerFailure ==
    /\ [](\A t \in RunSlots :
             Failed1(t) => (threads[t].result2 = -1 /\ threads[t].pc \in {"l1326", "done"}))
    /\ [][\A t \in RunSlots :
             (Failed1(t) /\ threads[t].pc = "l1326" /\ threads'[t].pc # "l1326") =>
                 heap'[threads[t].job].status = "error"]_vars

C6_Witness ==
    \E t \in RunSlots :
        /\ Failed1(t) /\ threads[t].pc = "done"
        /\ heap[threads[t].job].status = "error"

\* C7 as claimed (Spec): after a run whose analyzer succeeded and whose report generator
\* exited non-zero, the job record references the video artifact.
C7_VideoReferenced ==
    \A t \in RunSlots :
        (Failed2(t) /\ threads[t].pc = "done") => "output_video" \in DOMAIN heap[threads[t].job]

\* C7 amended (Spec): a run whose analyzer succeeded and whose report generator exited
\* non-zero sets the job's status to error; the analyzed video stays in the outputs
\* folder, and the run leaves output_video and output_excel of the job record as they
\* were.
C7_VideoRetainedOnDisk ==
    /\ [](\A t \in RunSlots :
             Failed2(t) =>
                 /\ threads[t].result1 = 0
                 /\ threads[t].pc \in {"l1326", "done"}
                 /\ OutputPath(threads[t].job_id, "video") \in outputs)
    /\ [][\A t \in RunSlots :
             (Failed2(t) /\ threads[t].pc = "l1326" /\ threads'[t].pc # "l1326") =>
                 /\ heap'[threads[t].job].status = "error"
                 /\ Get(heap'[threads[t].job], "output_video", None)
                        = Get(heap[threads[t].job], "output_video", None)
                 /\ Get(heap'[threads[t].job], "output_excel", None)
                        = Get(heap[threads[t].job], "output_excel", None)]_vars

C7_Witness ==
    \E t \in RunSlots :
        /\ Failed2(t) /\ threads[t].pc = "done"
        /\ heap[threads[t].job].status = "error"
        /\ "output_video" \notin DOMAIN heap[threads[t].job]
        /\ OutputPath(threads[t].job_id, "video") \in outputs

\* C8 (SpecUpload): a chunk request for an index already in uploaded_chunks of an
\* uploading job is answered already_uploaded with the current progress, and changes
\* neither the registry, nor any job dict, nor any file.
C8_ResubmitIdempotent ==
    [][\A j \in JobIds, i \in ChunkIndexes, d \in Bodies :
          (/\ ChunkCheck(j, i, d)
           /\ j \in DOMAIN active_jobs
           /\ StatusOf(j) = "uploading"
           /\ i \in JobOf(j).uploaded_chunks) =>
              /\ resp'.op = "upload_chunk" /\ resp'.code = 200
              /\ resp'.status = "already_uploaded"
              /\ RatEq(resp'.progress, JobOf(j).upload_progress)
              /\ UNCHANGED <<active_jobs, heap, files, chunkreqs, user_actions>>]_vars

C8_Witness ==
    /\ resp.op = "upload_chunk" /\ resp.code = 200 /\ resp.status = "already_uploaded"
    /\ \E j \in DOMAIN active_jobs :
          StatusOf(j) = "uploading" /\ JobOf(j).uploaded_chunks # {}

\* what a poll of a job with k of n chunks is claimed to show
ShowsChunkProgress(r, job) ==
    LET k == Cardinality(job.uploaded_chunks)
        n == job.total_chunks
    IN  /\ k < n => (r.status = "uploading" /\ RatEq(r.progress, <<100 * k, n>>))
        /\ k = n => (r.status = "uploaded" /\ RatEq(r.progress, <<100, 1>>))

C11_RejectedInitChangesNothing ==
    [][\A f \in FileNames, s \in FileSizes, c \in ChunkSizes :
          (/\ InitUpload(f, s, c)
           /\ (f = EmptyName \/ s = 0 \/ Lower(Suffix(f)) \notin ALLOWED_EXTENSIONS)) =>
              /\ resp'.op = "init_upload" /\ resp'.code = 400
              /\ UNCHANGED <<active_jobs, heap, files, issued>>]_vars

C11_Witness ==
    /\ resp.op = "init_upload" /\ resp.code = 400 /\ resp.error = "Unsupported file format"
    /\ active_jobs # << >>
    /\ JobIds \ issued # {}

\* the chunk request is one the checks of upload_chunk reject
RejectedChunk(j, i, d) ==
    \/ j \notin DOMAIN active_jobs
    \/ StatusOf(j) # "uploading"
    \/ i >= JobOf(j).total_chunks \/ i < 0
    \/ (i \notin JobOf(j).uploaded_chunks /\ d = << >>)

\* C12 (SpecUpload): a chunk request that is rejected (unknown job id, job not
\* uploading, index out of range, empty body) is answered 404 for the unknown id and
\* 400 otherwise, and leaves the registry, every job dict, the files and the log as
\* they were; no request frame is opened for it.
C12_RejectedChunkChangesNothing ==
    [][\A j \in JobIds, i \in ChunkIndexes, d \in Bodies :
          (ChunkCheck(j, i, d) /\ RejectedChunk(j, i, d)) =>
              /\ resp'.op = "upload_chunk"
              /\ resp'.code = IF j \in DOMAIN active_jobs THEN 400 ELSE 404
              /\ UNCHANGED <<active_jobs, heap, files, chunkreqs, user_actions>>]_vars

C12_Witness ==
    /\ resp.op = "upload_chunk" /\ resp.code = 400 /\ resp.error = "No chunk data received"
    /\ \E j \in DOMAIN active_jobs :
          StatusOf(j) = "uploading" /\ JobOf(j).uploaded_chunks # {}

\* C13 (SpecReaper): a sweep leaves in the registry every job whose status is
\* uploaded, processing, completed or error.
C13_ReaperKeepsNonUploading ==
    [][\A j \in JobIds :
          (/\ CleanupOldSessions
           /\ j \in DOMAIN active_jobs
           /\ StatusOf(j) \in {"uploaded", "processing", "completed", "error"}) =>
              j \in DOMAIN active_jobs']_vars

\* the events a subscription has emitted, and the last of them
EventsOf(s) == subs[s].events
LastEvent(s) == EventsOf(s)[Len(EventsOf(s))]

\* C14 as claimed (SpecSub): a subscription that found the job completed when it was
\* opened has, once ended, emitted exactly one event, with status completed.
C14_ExactlyOneTerminalEvent ==
    \A s \in SubSlots :
        (subs[s].initial_status = "completed" /\ subs[s].pc = "done") =>
            (Len(EventsOf(s)) = 1 /\ EventsOf(s)[1].status = "completed")

\* C14 amended (SpecSub): a subscription opened on a completed job, and finding it
\* still completed at its first sample, emits exactly two events, the snapshot with
\* status completed and then the final completion event, and ends.
C14_SnapshotThenFinalEvent ==
    \A s \in SubSlots :
        (/\ subs[s].initial_status = "completed"
         /\ EventsOf(s) # << >>
         /\ EventsOf(s)[1].status = "completed") =>
            /\ subs[s].pc = "done"
            /\ Len(EventsOf(s)) = 2
            /\ EventsOf(s)[1].kind = "update"
            /\ EventsOf(s)[2].kind = "final" /\ EventsOf(s)[2].status = "completed"
            /\ EventsOf(s)[2].progress = 100

C14_Witness ==
    \E s \in SubSlots :
        /\ subs[s].initial_status = "completed" /\ subs[s].pc = "done"
        /\ Len(EventsOf(s)) = 2 /\ EventsOf(s)[2].kind = "final"

\* C15 (SpecSub): a subscription never starts a sample after 120 iterations; every
\* pass through the loop either ends the subscription or counts one iteration; and a
\* subscription that has ended has as its last event the final event of a terminal
\* status, the error event of an unknown job, or, after exactly 120 iterations, the
\* timeout marker.
C15_SubscriptionBounded ==
    /\ [](\A s \in SubSlots :
             /\ subs[s].iterations <= SubMaxIterations
             /\ subs[s].pc = "status" => subs[s].iterations < SubMaxIterations
             /\ subs[s].pc = "done" =>
                    /\ EventsOf(s) # << >>
                    /\ LastEvent(s).kind \in {"final", "notfound", "timeout"}
                    /\ LastEvent(s).kind = "final" => LastEvent(s).status \in {"completed", "error"}
                    /\ LastEvent(s).kind = "timeout" <=> subs[s].iterations = SubMaxIterations)
    /\ [][\A s \in SubSlots :
             /\ (subs[s].pc = "status" /\ subs'[s].pc # "status") =>
                    \/ subs'[s].pc = "done"
                    \/ subs'[s].pc = "loop" /\ subs'[s].iterations = subs[s].iterations + 1
             /\ (subs[s].pc = "loop" /\ subs'[s].pc # "loop") =>
                    subs'[s].pc \in {"status", "done"}]_vars

C15_Witness ==
    \E s \in SubSlots :
        /\ subs[s].pc = "done" /\ LastEvent(s).kind = "timeout"
        /\ subs[s].iterations = SubMaxIterations

\* the event carries a progress value
HasProgress(e) == "progress" \in DOMAIN e

\* C16 (SpecSub): in the events of one subscription the progress values never
\* decrease, except towards an event with status error.
C16_ProgressNonDecreasing ==
    \A s \in SubSlots :
        \A i, j \in 1..Len(EventsOf(s)) :
            (i < j /\ HasProgress(EventsOf(s)[i]) /\ HasProgress(EventsOf(s)[j])) =>
                \/ EventsOf(s)[j].status = "error"
                \/ EventsOf(s)[i].progress <= EventsOf(s)[j].progress

\* C17 (SpecSub): a sample whose progress or status differs from the snapshot emitted
\* last (or the very first sample) emits an event, and a sample that finds the job
\* completed or in error ends the subscription with the final event.
C17_EmitsOnEveryChange ==
    [][\A s \in SubSlots :
          (subs[s].pc = "status" /\ subs'[s].pc # "status") =>
              LET current_status == Get(heap[subs[s].job], "status", "unknown") IN
              /\ (\/ EventsOf(s) = << >>
                  \/ LastEvent(s).progress # subs[s].current_progress
                  \/ LastEvent(s).status # current_status) =>
                     Len(subs'[s].events) > Len(EventsOf(s))
              /\ current_status \in {"completed", "error"} =>
                     /\ subs'[s].pc = "done"
                     /\ subs'[s].events[Len(subs'[s].events)].kind = "final"]_vars

\* C18 (Spec): a poll changes nothing in the registry, the job dicts, the files or the
\* log; it answers 404 for an unknown job id and otherwise the job's status, progress
\* and message as they are, job-status with the results exactly when the status is
\* completed and upload-status never with results.
C18_PollIsPureRead ==
    [][\A j \in JobIds :
          /\ JobStatus(j) =>
                /\ UNCHANGED <<active_jobs, heap, files, outputs, user_actions>>
                /\ resp'.op = "job_status"
                /\ IF j \notin DOMAIN active_jobs
                   THEN resp'.code = 404
                   ELSE /\ resp'.code = 200
                        /\ resp'.status = StatusOf(j)
                        /\ resp'.progress = Get(JobOf(j), "progress", 0)
                        /\ resp'.message = Get(JobOf(j), "message", "Processing...")
                        /\ "results" \in DOMAIN resp' <=> StatusOf(j) = "completed"
          /\ UploadStatus(j) =>
                /\ UNCHANGED <<active_jobs, heap, files, outputs, user_actions>>
                /\ resp'.op = "upload_status"
                /\ IF j \notin DOMAIN active_jobs
                   THEN resp'.code = 404
                   ELSE /\ resp'.code = 200
                        /\ resp'.status = StatusOf(j)
                        /\ resp'.progress = Get(JobOf(j), "upload_progress", <<0, 1>>)
                        /\ resp'.message = Get(JobOf(j), "message", "")
                        /\ "results" \notin DOMAIN resp']_vars

C18_Witness ==
    /\ resp.op = "job_status" /\ resp.code = 200
    /\ resp.status = "processing" /\ resp.progress = 60
    /\ "results" \notin DOMAIN resp

\* C19 (Spec): a step that takes a job id out of the registry is a cleanup request for
\* that id (or a sweep); a step of a pipeline thread leaves the registry as it is.
C19_RemovedOnlyByCleanup ==
    [][/\ \A j \in JobIds :
             (j \in DOMAIN active_jobs /\ j \notin DOMAIN active_jobs') =>
                 (CleanupUpload(j) \/ CleanupOldSessions)
       /\ PipeStep => UNCHANGED active_jobs]_vars

\* a finished job is still there: the last request downloaded its video
C19_Witness ==
    /\ resp.op = "download" /\ resp.code = 200
    /\ \E t \in RunSlots :
          /\ threads[t].pc = "done" /\ threads[t].result2 = 0
          /\ threads[t].job_id \in DOMAIN active_jobs
          /\ StatusOf(threads[t].job_id) = "completed"

C21_DownloadOnlyCompleted ==
    [][resp'.op = "download" =>
          \A j \in JobIds, k \in FileTypes :
              DownloadResult(j, k) =>
                  /\ UNCHANGED <<active_jobs, heap, files, outputs>>
                  /\ j \notin DOMAIN active_jobs => resp'.code = 404
                  /\ (j \in DOMAIN active_jobs /\ StatusOf(j) # "completed") => resp'.code = 400
                  /\ (j \in DOMAIN active_jobs /\ k \notin {"video", "excel"}) => resp'.code = 400
                  /\ resp'.code = 200 =>
                        /\ j \in DOMAIN active_jobs
                        /\ StatusOf(j) = "completed"
                        /\ k \in {"video", "excel"}
                        /\ resp'.file = JobOf(j)[IF k = "video" THEN "output_video"
                                                 ELSE "output_excel"]
                        /\ resp'.file \in outputs]_vars

\* a download was refused for a job that is no longer completed and still names the
\* video of an earlier run
C21_Witness ==
    /\ resp.op = "download" /\ resp.code = 400 /\ resp.error = "Processing not completed"
    /\ \E j \in DOMAIN active_jobs :
          /\ StatusOf(j) \in {"processing", "error"}
          /\ "output_video" \in DOMAIN JobOf(j)
          /\ JobOf(j).output_video \in outputs

\* C22 (SpecGone): once the client of a subscription has gone away, the generator
\* takes no sample later than one iteration after the one the client left in.
C22_StopsWithinOneInterval ==
    \A s \in SubSlots :
        (subs[s].gone_at # -1 /\ subs[s].pc = "status") =>
            subs[s].iterations <= subs[s].gone_at + 1

\* the pipeline thread t is inside an external invocation (subprocess.run)
Suspended(t) == threads[t].pc \in {"l1285", "l1309"}

\* C23 (SpecPar): while a pipeline thread is inside the analyzer or the report
\* generator, for every other registered job the two polls are enabled, a chunk
\* upload and a start-processing are enabled whenever a request slot resp. a thread
\* slot is left, and a chunk request being served can take its next step; and such a
\* request leaves the suspended thread and the dict it works on as they are.
C23_OtherJobsNotBlocked ==
    /\ [](\A t \in RunSlots : Suspended(t) =>
             \A k \in DOMAIN active_jobs \ {threads[t].job_id} :
                 /\ ENABLED UploadStatus(k)
                 /\ ENABLED JobStatus(k)
                 /\ (\E r \in ReqSlots : chunkreqs[r].pc = "idle") =>
                        \A i \in 0..1 : ENABLED ChunkCheck(k, i, WholeChunk)
                 /\ (\E u \in RunSlots : threads[u].pc = "unused") =>
                        ENABLED StartProcessing(k)
                 /\ \A r \in ReqSlots :
                        (chunkreqs[r].pc # "idle" /\ chunkreqs[r].job_id = k) =>
                            ENABLED (ChunkWrite(r) \/ ChunkAdd(r) \/ ChunkProgress(r)
                                        \/ ChunkStore(r) \/ ChunkComplete(r)))
    /\ [][\A t \in RunSlots : Suspended(t) =>
             \A k \in JobIds \ {threads[t].job_id} :
                 (\/ UploadStatus(k) \/ JobStatus(k) \/ StartProcessing(k)
                  \/ \E i \in 0..1 : ChunkCheck(k, i, WholeChunk)
                  \/ \E r \in ReqSlots : chunkreqs[r].job_id = k /\ chunkreqs'[r] # chunkreqs[r]) =>
                     /\ threads'[t] = threads[t]
                     /\ heap'[threads[t].job] = heap[threads[t].job]]_vars

\* one job is inside the analyzer while a chunk of another job is being written and a
\* thread slot is left for it
C23_Witness ==
    \E t \in RunSlots, r \in ReqSlots :
        /\ threads[t].pc = "l1285"
        /\ chunkreqs[r].pc = "add" /\ chunkreqs[r].job_id # threads[t].job_id
        /\ \E u \in RunSlots : threads[u].pc = "unused"

\* the job registered under j has the record of an upload-initiate
Chunked(j) == j \in DOMAIN active_jobs /\ "uploaded_chunks" \in DOMAIN JobOf(j)

\* C24 (Spec): uploaded_chunks of a registered job is a subset of 0..total_chunks-1,
\* and as long as the job id stays in the registry no step takes an index out of it.
C24_ChunksOnlyGrow ==
    /\ [](\A j \in JobIds :
             Chunked(j) => JobOf(j).uploaded_chunks \subseteq 0..(JobOf(j).total_chunks - 1))
    /\ [][\A j \in JobIds :
             (Chunked(j) /\ j \in DOMAIN active_jobs') =>
                 JobOf(j).uploaded_chunks
                     \subseteq Get(heap'[active_jobs'[j]], "uploaded_chunks", {})]_vars

\* C25 (Spec): with no chunk request being served, a registered job with an upload
\* geometry has status uploading exactly when fewer than total_chunks chunks are in
\* uploaded_chunks.
C25_UploadingIffIncomplete ==
    Quiet =>
        \A j \in JobIds :
            Chunked(j) =>
                (StatusOf(j) = "uploading"
                    <=> Cardinality(JobOf(j).uploaded_chunks) < JobOf(j).total_chunks)

\* C26 (SpecConc): with no chunk request being served, upload_progress of a job is
\* 100 * |uploaded_chunks| / total_chunks.
C26_NoLostProgressUpdate ==
    Quiet =>
        \A j \in JobIds :
            Chunked(j) => RatEq(JobOf(j).upload_progress, Percent(JobOf(j)))

\* C27 (SpecGeom): every registered upload has chunk_size >= 1 and total_chunks >= 1,
\* and total_chunks is the least n with n * chunk_size >= filesize.
C27_TotalChunksIsCeiling ==
    \A j \in JobIds :
        Chunked(j) =>
            LET job == JobOf(j) IN
            /\ job.chunk_size >= 1
            /\ job.total_chunks >= 1
            /\ job.total_chunks * job.chunk_size >= job.filesize
            /\ (job.total_chunks - 1) * job.chunk_size < job.filesize

\* C28 (SpecUpload): the staging file of a registered upload has length filesize.
C28_StagingFileHasFilesize ==
    \A j \in JobIds :
        (Chunked(j) /\ JobOf(j).filepath \in DOMAIN files) =>
            Len(files[JobOf(j).filepath]) = JobOf(j).filesize

\* the upload geometry, the path and the owner
FixedKeys == {"filesize", "chunk_size", "total_chunks", "filepath", "user"}

\* C29 (Spec): as long as a job id stays in the registry, filesize, chunk_size,
\* total_chunks, filepath and user of its record stay there and keep their values.
C29_GeometryFixed ==
    [][\A j \in JobIds :
          (j \in DOMAIN active_jobs /\ j \in DOMAIN active_jobs') =>
              \A k \in FixedKeys \cap DOMAIN JobOf(j) :
                  /\ k \in DOMAIN heap'[active_jobs'[j]]
                  /\ heap'[active_jobs'[j]][k] = JobOf(j)[k]]_vars

\* the rational <<n, d>> lies between 0 and 100
RatInRange(a) == a[2] > 0 /\ a[1] >= 0 /\ a[1] <= 100 * a[2]

\* C30 (Spec): upload_progress and progress of every job dict lie between 0 and 100,
\* and so does the progress in the response of a poll and in every event of a
\* subscription.
C30_ProgressInRange ==
    /\ \A o \in DOMAIN heap :
          /\ RatInRange(Get(heap[o], "upload_progress", <<0, 1>>))
          /\ Get(heap[o], "progress", 0) \in 0..100
    /\ (resp.op = "upload_status" /\ resp.code = 200) => RatInRange(resp.progress)
    /\ (resp.op = "job_status" /\ resp.code = 200) => resp.progress \in 0..100
    /\ \A s \in SubSlots : \A i \in 1..Len(EventsOf(s)) :
          HasProgress(EventsOf(s)[i]) => EventsOf(s)[i].progress \in 0..100

\* a job that came in by chunks and was processed to the end: both at 100
C30_Witness ==
    /\ resp.op = "job_status" /\ resp.code = 200 /\ resp.progress = 100
    /\ \E j \in JobIds :
          /\ Chunked(j)
          /\ RatEq(JobOf(j).upload_progress, <<100, 1>>)
          /\ JobOf(j).progress = 100

\* the dict thread t holds has key k assigned value v in this step
Writes(t, k, v) ==
    /\ threads'[t].job # NoRef
    /\ k \in DOMAIN heap'[threads'[t].job] /\ heap'[threads'[t].job][k] = v
    /\ (k \notin DOMAIN heap[threads'[t].job] \/ heap[threads'[t].job][k] # v)

\* C31 (Spec): a run sets progress 60 only once its analyzer has exited with code
\* zero, and sets progress 100, status completed and either output path only once
\* its report generator has exited with code zero too; a run in which a stage failed
\* writes none of the latter.
C31_StagesGateProgress ==
    [][threads' = threads \/
       \A t \in RunSlots :
          (threads'[t] # threads[t] /\ threads[t].pc # "unused") =>
              /\ Writes(t, "progress", 60) => threads'[t].result1 = 0
              /\ (\/ Writes(t, "progress", 100)
                  \/ Writes(t, "status", "completed")
                  \/ Writes(t, "output_video", OutputPath(threads[t].job_id, "video"))
                  \/ Writes(t, "output_excel", OutputPath(threads[t].job_id, "excel")))
                 => (threads'[t].result1 = 0 /\ threads'[t].result2 = 0)]_vars

\* a run whose report generator failed has ended: the job is in error at progress 60
\* with no output path
C31_Witness ==
    \E t \in RunSlots :
        /\ threads[t].pc = "done" /\ threads[t].result1 = 0 /\ Failed2(t)
        /\ heap[threads[t].job].status = "error"
        /\ heap[threads[t].job].progress = 60
        /\ "output_video" \notin DOMAIN heap[threads[t].job]
        /\ "output_excel" \notin DOMAIN heap[threads[t].job]

\* C32 (SpecIO): when writing a chunk to the staging file fails, the request is
\* answered with an error, the registry and every job dict (uploaded_chunks,
\* upload_progress and status of this and of every other job) are as they were, and
\* the same chunk sent again passes the checks as a new chunk.
C32_FailedWriteChangesNothing ==
    [][\A r \in ReqSlots :
          (chunkreqs[r].pc = "write" /\ chunkreqs'[r].pc = "idle") =>
              /\ resp'.op = "upload_chunk" /\ resp'.code = 500
              /\ active_jobs' = active_jobs /\ heap' = heap
              /\ chunkreqs[r].chunk_index \notin heap'[chunkreqs[r].job].uploaded_chunks
              /\ heap'[chunkreqs[r].job].status = "uploading"
              /\ \A j \in JobIds, i \in ChunkIndexes, d \in Bodies :
                    (/\ j = chunkreqs[r].job_id /\ i = chunkreqs[r].chunk_index
                     /\ d = chunkreqs[r].chunk_data) => ChunkOutcome(j, i, d)' = "accepted"]_vars

\* the write of a chunk to an existing staging file failed after another chunk had
\* been stored, and the chunk sent again is on its way to the file
C32_Witness ==
    /\ resp.op = "upload_chunk" /\ resp.code = 500
    /\ \E r \in ReqSlots :
          /\ chunkreqs[r].pc = "write"
          /\ heap[chunkreqs[r].job].filepath \in DOMAIN files
          /\ heap[chunkreqs[r].job].uploaded_chunks # {}
          /\ heap[chunkreqs[r].job].status = "uploading"

\* C33 (SpecReaper): a sweep in which the removal of a staging file fails goes on:
\* the other candidates' files are removed or fail on their own, and every candidate,
\* the one whose file stayed included, is deleted from the registry, so that no
\* candidate is left for a second sweep.
C33_SweepSurvivesFailedRemoval ==
    [][CleanupOldSessions =>
          /\ DOMAIN active_jobs' = DOMAIN active_jobs \ ToRemove
          /\ ToRemove' = {}
          /\ DOMAIN files \ Incomplete \subseteq DOMAIN files']_vars

\* both jobs were created at hour 0 and were candidates of the sweep at hour 36:
\* both are gone from the registry, the staging file of one is removed and that of
\* the other, an incomplete upload, is still on the disk
C33_Witness ==
    /\ now = 36 /\ issued = JobIds /\ DOMAIN active_jobs = {}
    /\ Cardinality(DOMAIN files) = 1
    /\ \E f \in DOMAIN files : \E p \in 1..Len(files[f]) : files[f][p] = 0

\* the job registered under j is an upload older than the retention threshold that
\* is still in status uploading
StaleUpload(j) ==
    /\ StatusOf(j) = "uploading"
    /\ "created_at" \in DOMAIN JobOf(j)
    /\ JobOf(j).created_at < now - RETENTION_HOURS

\* C34 (SpecReaper): a sweep deletes from the registry exactly the jobs in status
\* uploading whose created_at is older than 24 hours, and removes no staging file
\* of any other job.
C34_SweepRemovesExactlyStale ==
    [][CleanupOldSessions =>
          \A j \in DOMAIN active_jobs :
              /\ j \notin DOMAIN active_jobs' <=> StaleUpload(j)
              /\ (~StaleUpload(j) /\ JobOf(j).filepath \in DOMAIN files) =>
                     JobOf(j).filepath \in DOMAIN files']_vars

\* C35 (SpecLive): every pipeline thread launched by start-processing eventually
\* ends having written completed or error to its job, whatever cleanups and further
\* start-processing calls come in between.
C35_ProcessingEnds ==
    \A t \in RunSlots : (threads[t].pc = "l1265") ~> (threads[t].pc = "done")

\* C36 (Spec): in every reachable state a registered job in status completed has
\* progress 100, and a registered job in status uploading or uploaded has had no
\* processing progress (20, 60, 100) written to it.
C36_StatusMatchesProgress ==
    \A j \in DOMAIN active_jobs :
        /\ StatusOf(j) = "completed" => Get(JobOf(j), "progress", 0) = 100
        /\ StatusOf(j) \in {"uploading", "uploaded"} => "progress" \notin DOMAIN JobOf(j)

\* every registered job in status uploading has its staging file on the disk
UploadingHasFile ==
    \A j \in DOMAIN active_jobs :
        StatusOf(j) = "uploading" => JobOf(j).filepath \in DOMAIN files

\* C37 (SpecIO): an upload-initiate that fails to allocate the staging file leaves no
\* job record behind, and every job in status uploading has an existing staging file.
C37_InitAllOrNothing ==
    /\ [][(resp'.op = "init_upload" /\ resp'.code # 200 /\ resp' # resp) =>
             active_jobs' = active_jobs]_vars
    /\ []UploadingHasFile

\* C38 (SpecLive): a step of a pipeline thread never changes the registry, so the id
\* of a job cleaned up under a running thread stays unknown to the polls whatever the
\* thread writes afterwards, and the step changes no registered record other than
\* the dict the thread holds.
C38_ThreadNeverReinserts ==
    /\ [][threads' = threads \/
          \A t \in RunSlots :
          (threads'[t] # threads[t] /\ threads[t].pc # "unused") =>
              /\ active_jobs' = active_jobs
              /\ \A j \in DOMAIN active_jobs :
                    active_jobs[j] # threads'[t].job =>
                        heap'[active_jobs[j]] = heap[active_jobs[j]]
              /\ threads[t].job_id \notin DOMAIN active_jobs =>
                    \A j \in DOMAIN active_jobs :
                        heap'[active_jobs[j]] = heap[active_jobs[j]]]_vars
    /\ [][\A j \in JobIds \ DOMAIN active_jobs : JobStatus(j) => resp'.code = 404]_vars

\* the job of a thread was cleaned up while the thread was running; the thread has
\* since written progress 100 and status completed to the dict it holds, the id is
\* not in the registry and another job is
C38_Witness ==
    \E t \in RunSlots :
        /\ threads[t].pc = "l1318"
        /\ threads[t].job_id \notin DOMAIN active_jobs
        /\ heap[threads[t].job].status = "completed"
        /\ DOMAIN active_jobs # {}

\* C39 (SpecSub): a subscription opened on a job id that is not in the registry
\* emits one event, status error with message 'Job not found', and is over at once:
\* it holds no job, takes no sample, counts no iteration and emits nothing more, the
\* timeout marker included, whatever happens to that id later.
C39_UnknownJobOneEvent ==
    /\ [][\A s \in SubSlots :
             (/\ subs[s].pc = "unused" /\ subs'[s].pc # "unused"
              /\ subs'[s].job_id \notin DOMAIN active_jobs) =>
                 /\ subs'[s].pc = "done"
                 /\ Len(subs'[s].events) = 1
                 /\ subs'[s].events[1].status = "error"
                 /\ subs'[s].events[1].message = "Job not found"
                 /\ subs'[s].job = NoRef
                 /\ subs'[s].iterations = 0]_vars
    /\ [][\A s \in SubSlots : subs[s].pc = "done" => subs'[s] = subs[s]]_vars

\* a subscription was opened on an unknown id and got its single event; the id has
\* since been registered and its job is in processing
C39_Witness ==
    \E s \in SubSlots :
        /\ subs[s].pc = "done"
        /\ EventsOf(s) = <<[kind |-> "notfound", status |-> "error", message |-> "Job not found"]>>
        /\ subs[s].job_id \in DOMAIN active_jobs
        /\ StatusOf(subs[s].job_id) = "processing"

\* C40 (SpecSub): in the events of a subscription the timeout marker and the final
\* event of a terminal status exclude each other and either is the last event, after
\* which the subscription is over; the timeout marker comes only after 120 iterations
\* in which no sample showed completed or error, a final event only before that.
C40_TimeoutOrFinal ==
    \A s \in SubSlots :
        /\ \A p \in 1..Len(EventsOf(s)) :
              EventsOf(s)[p].kind \in {"timeout", "final"} =>
                  (p = Len(EventsOf(s)) /\ subs[s].pc = "done")
        /\ (EventsOf(s) # << >> /\ LastEvent(s).kind = "timeout") =>
              /\ subs[s].iterations = SubMaxIterations
              /\ \A p \in 1..Len(EventsOf(s)) :
                    EventsOf(s)[p].status \notin {"completed", "error"}
        /\ (EventsOf(s) # << >> /\ LastEvent(s).kind = "final") =>
              /\ subs[s].iterations < SubMaxIterations
              /\ LastEvent(s).status \in {"completed", "error"}

\* a subscription has followed a job in processing through its progress values for
\* 120 iterations and has ended with the timeout marker
C40_Witness ==
    \E s \in SubSlots :
        /\ subs[s].pc = "done" /\ LastEvent(s).status = "timeout"
        /\ Len(EventsOf(s)) >= 3
        /\ EventsOf(s)[1].status = "processing"

====
